---- MODULE Spec2Model ----
(***************************************************************************)
(* Model of local_food_wastage_app_fixed.py: a Streamlit dashboard over a  *)
(* SQLite store with four tables.  Streamlit re-runs main() for every user *)
(* interaction, so every action below is one run of main(): the bootstrap  *)
(* step followed by the dispatch to the selected menu destination.         *)
(***************************************************************************)
EXTENDS Integers, Sequences, FiniteSets, TLC

VARIABLES
    dbFile,           \* os.path.exists(DB_NAME)
    dataDir,          \* os.path.exists(DATA_DIR)
    tables,           \* the user tables of the store: name -> [autoinc, cols, rows]
    sqlite_sequence,  \* SQLite's AUTOINCREMENT bookkeeping: table name -> last rowid
    openConns,        \* connections opened by sqlite3.connect and never close()d
    choice,           \* menu destination of the last run of main
    bootstrap,        \* what the last run's bootstrap step did: "skipped" | "ran" | "failed"
    outcome,          \* what the last run rendered last
    df,               \* rows fetched by the last run's read query (the data frame)
    options,          \* what get_unique_values returned for the four select boxes
    form,             \* values submitted with the "Add Listing" button
    seeded            \* history: some run completed load_embedded_data_to_db

vars == <<dbFile, dataDir, tables, sqlite_sequence, openConns, choice,
          bootstrap, outcome, df, options, form, seeded>>

---------------------------------------------------------------------------
(* Bounds of the model *)

MaxAdds == 2          \* listings added through the form
MaxQuantity == 2      \* largest quantity entered in the form
MaxOpenConns == 2     \* leaked connections tracked before the finalizer must run

---------------------------------------------------------------------------
(* Values *)

\* SQL NULL / Python None, in an INTEGER and in a TEXT column.
NullInt == 0
NullText == "<NULL>"

MinQuantity == 1

TableNames == {"Providers", "Receivers", "FoodListings", "Claims"}

Menu == <<"Home", "View Data", "Add Food Listing", "Food Listings",
          "SQL Queries", "Food Wastage Chart">>

FoodTypeFallback == <<"Vegetable", "Grain">>
MealTypeFallback == <<"Breakfast", "Lunch", "Dinner">>

\* BINARY collation order of the Food_Type values the program can store.
FoodTypeCollation == <<"Bakery", "Grain", "Vegetable">>

RECURSIVE SumSeq(_)
SumSeq(s) == IF s = <<>> THEN 0 ELSE Head(s) + SumSeq(Tail(s))

RECURSIVE MaxSeq(_)
MaxSeq(s) == IF s = <<>> THEN 0
             ELSE LET m == MaxSeq(Tail(s)) IN IF Head(s) > m THEN Head(s) ELSE m

Column(rows, column) == [i \in 1..Len(rows) |-> rows[i][column]]

Range(s) == {s[i] : i \in 1..Len(s)}

\* The first occurrences of the values of s, in order (SELECT DISTINCT).
RECURSIVE Distinct(_)
Distinct(s) ==
    IF s = <<>> THEN <<>>
    ELSE LET d == Distinct(SubSeq(s, 1, Len(s) - 1))
             x == s[Len(s)]
         IN IF x \in Range(d) THEN d ELSE Append(d, x)

---------------------------------------------------------------------------
(* Schema: create_database *)

DeclaredCols(t) ==
    CASE t = "Providers"    -> <<"Provider_ID", "Name", "Type">>
      [] t = "Receivers"    -> <<"Receiver_ID", "Name", "Type">>
      [] t = "FoodListings" -> <<"Listing_ID", "Food_Name", "Quantity", "Expiry_Date",
                                 "Provider_ID", "Provider_Type", "Location",
                                 "Food_Type", "Meal_Type">>
      [] t = "Claims"       -> <<"Claim_ID", "Listing_ID", "Receiver_ID", "Claim_Date">>

\* CREATE TABLE IF NOT EXISTS t (<id> INTEGER PRIMARY KEY AUTOINCREMENT, ...)
DeclaredTable(t) == [autoinc |-> TRUE, cols |-> DeclaredCols(t), rows |-> <<>>]

\* sqlite3.connect creates the file; each table is created unless it exists.
create_database(s) ==
    [s EXCEPT !.file = TRUE,
              !.tables = [t \in (DOMAIN s.tables) \cup TableNames |->
                            IF t \in DOMAIN s.tables THEN s.tables[t]
                            ELSE DeclaredTable(t)]]

---------------------------------------------------------------------------
(* Seed data: load_embedded_data_to_db *)

providers ==
    << [Provider_ID |-> 1, Name |-> "Provider A", Type |-> "Restaurant"],
       [Provider_ID |-> 2, Name |-> "Provider B", Type |-> "Supermarket"] >>

receivers ==
    << [Receiver_ID |-> 1, Name |-> "Receiver A", Type |-> "NGO"],
       [Receiver_ID |-> 2, Name |-> "Receiver B", Type |-> "Charity"] >>

food_listings ==
    << [Listing_ID |-> 1, Food_Name |-> "Rice", Quantity |-> 10,
        Expiry_Date |-> "2025-05-10", Provider_ID |-> 1,
        Provider_Type |-> "Restaurant", Location |-> "Downtown",
        Food_Type |-> "Grain", Meal_Type |-> "Lunch"],
       [Listing_ID |-> 2, Food_Name |-> "Bread", Quantity |-> 5,
        Expiry_Date |-> "2025-05-12", Provider_ID |-> 2,
        Provider_Type |-> "Supermarket", Location |-> "Uptown",
        Food_Type |-> "Bakery", Meal_Type |-> "Breakfast"] >>

claims ==
    << [Claim_ID |-> 1, Listing_ID |-> 1, Receiver_ID |-> 1,
        Claim_Date |-> "2025-05-08"] >>

\* The order of the four to_sql calls.
LoadOrder == <<"Providers", "Receivers", "FoodListings", "Claims">>

Frame(t) ==
    CASE t = "Providers"    -> providers
      [] t = "Receivers"    -> receivers
      [] t = "FoodListings" -> food_listings
      [] t = "Claims"       -> claims

\* DataFrame.to_sql(name, conn, if_exists="replace", index=False): the table is
\* dropped (with its sqlite_sequence entry) and created again from the frame's
\* columns, which are plain INTEGER / TEXT columns without a primary key.
to_sql(s, name) ==
    [s EXCEPT !.tables = [t \in (DOMAIN s.tables) \cup {name} |->
                            IF t = name
                            THEN [autoinc |-> FALSE, cols |-> DeclaredCols(name),
                                  rows |-> Frame(name)]
                            ELSE s.tables[t]],
              !.seq = [t \in (DOMAIN s.seq) \ {name} |-> s.seq[t]]]

\* The first n of the four to_sql calls (n = 4: the whole function).
RECURSIVE LoadUpTo(_, _)
LoadUpTo(s, n) == IF n = 0 THEN s ELSE to_sql(LoadUpTo(s, n - 1), LoadOrder[n])

\* The function without its last to_sql call.
load_without_claims(s) == LoadUpTo(s, Len(LoadOrder) - 1)

load_embedded_data_to_db(s) == LoadUpTo(s, Len(LoadOrder))

---------------------------------------------------------------------------
(* The SQLite engine behind cursor.execute *)

Digit == <<"0", "1", "2", "3", "4", "5", "6", "7", "8", "9">>
Pad2(n) == Digit[((n \div 10) % 10) + 1] \o Digit[(n % 10) + 1]
Pad4(n) == Pad2(n \div 100) \o Pad2(n % 100)

\* sqlite3's default adapter binds a datetime.date <<year, month, day>> as ISO text.
adapt_date(d) == Pad4(d[1]) \o "-" \o Pad2(d[2]) \o "-" \o Pad2(d[3])

HasTable(s, t) == t \in DOMAIN s.tables

HasColumn(s, t, c) == HasTable(s, t) /\ c \in Range(s.tables[t].cols)

\* The rowid SQLite assigns to a row inserted without a value for the first
\* column: with INTEGER PRIMARY KEY AUTOINCREMENT one more than the largest rowid
\* ever used; in a table whose first column is a plain INTEGER the column is NULL.
NextId(s, t) ==
    IF s.tables[t].autoinc
    THEN LET used == MaxSeq(Column(s.tables[t].rows, s.tables[t].cols[1]))
             last == IF t \in DOMAIN s.seq THEN s.seq[t] ELSE 0
         IN (IF used > last THEN used ELSE last) + 1
    ELSE NullInt

\* INSERT INTO FoodListings (Food_Name, ..., Meal_Type) VALUES (?, ..., ?)
InsertRow(s, p) ==
    [Listing_ID |-> NextId(s, "FoodListings"),
     Food_Name |-> p.food_name, Quantity |-> p.quantity,
     Expiry_Date |-> adapt_date(p.expiry_date), Provider_ID |-> p.provider_id,
     Provider_Type |-> p.provider_type, Location |-> p.location,
     Food_Type |-> p.food_type, Meal_Type |-> p.meal_type]

Insert(s, p) ==
    LET row == InsertRow(s, p)
        t   == s.tables["FoodListings"]
    IN [s EXCEPT !.tables["FoodListings"].rows = Append(t.rows, row),
                 !.seq = IF t.autoinc
                         THEN [n \in (DOMAIN s.seq) \cup {"FoodListings"} |->
                                 IF n = "FoodListings" THEN row.Listing_ID ELSE s.seq[n]]
                         ELSE s.seq]

DropTable(s, name) ==
    [s EXCEPT !.tables = [t \in (DOMAIN s.tables) \ {name} |-> s.tables[t]],
              !.seq = [t \in (DOMAIN s.seq) \ {name} |-> s.seq[t]]]

\* COUNT(Quantity) in place of SUM(Quantity).
GroupCount(rows, ft) ==
    Len(SelectSeq(rows, LAMBDA r : r.Food_Type = ft))

\* SELECT Food_Type, SUM(Quantity) AS Total FROM FoodListings GROUP BY Food_Type
GroupTotal(rows, ft) ==
    SumSeq(Column(SelectSeq(rows, LAMBDA r : r.Food_Type = ft), "Quantity"))

Aggregate(rows) ==
    LET present == SelectSeq(FoodTypeCollation,
                             LAMBDA ft : \E i \in 1..Len(rows) : rows[i].Food_Type = ft)
    IN [i \in 1..Len(present) |->
          [Food_Type |-> present[i], Total |-> GroupTotal(rows, present[i])]]

\* One statement run by cursor.execute on store s.  raised: the statement was
\* rejected (syntax error, no such table / column) and changed nothing;
\* description: the statement produced a result set; rows: that result set.
cursor_execute(s, q, params) ==
    LET fail == [raised |-> TRUE, description |-> FALSE, rows |-> <<>>, store |-> s]
        ok(rows) == [raised |-> FALSE, description |-> TRUE, rows |-> rows, store |-> s]
        done(st) == [raised |-> FALSE, description |-> FALSE, rows |-> <<>>, store |-> st]
    IN CASE q.op = "syntax_error" -> fail
         [] q.op = "select_all" ->
              IF HasTable(s, q.table) THEN ok(s.tables[q.table].rows) ELSE fail
         [] q.op = "select_distinct" ->
              IF HasColumn(s, q.table, q.column)
              THEN ok(Distinct(Column(s.tables[q.table].rows, q.column)))
              ELSE fail
         [] q.op = "aggregate" ->
              IF HasTable(s, "FoodListings")
              THEN ok(Aggregate(s.tables["FoodListings"].rows))
              ELSE fail
         [] q.op = "insert" ->
              IF HasTable(s, "FoodListings") THEN done(Insert(s, params)) ELSE fail
         [] q.op = "drop" ->
              IF HasTable(s, q.table) THEN done(DropTable(s, q.table)) ELSE fail

---------------------------------------------------------------------------
(* Utility functions *)

NoParams == [none |-> TRUE]

\* connect, execute, fetchall, commit, close.  An exception of cursor.execute
\* leaves the function before conn.close(): the connection stays open.
execute_query(s, query, params) ==
    LET r == cursor_execute(s, query, params)
    IN [raised |-> r.raised, results |-> r.rows, store |-> r.store,
        leaked |-> IF r.raised THEN 1 ELSE 0]

\* SELECT column in place of SELECT DISTINCT column.
get_all_values(s, table, column) ==
    [values |-> IF HasColumn(s, table, column)
                THEN Column(s.tables[table].rows, column) ELSE <<>>,
     leaked |-> IF HasColumn(s, table, column) THEN 0 ELSE 1]

get_unique_values(s, table, column) ==
    LET r == execute_query(s, [op |-> "select_distinct", table |-> table,
                               column |-> column], NoParams)
    IN [values |-> IF r.raised THEN <<>> ELSE r.results, leaked |-> r.leaked]

\* pandas.read_sql / read_sql_query on a sqlite3 connection: the statement is
\* executed, then the frame is built from cursor.description, which is None for
\* a statement without a result set (TypeError).  DDL is committed as it runs.
read_sql(s, query) ==
    LET r == cursor_execute(s, query, NoParams)
    IN [raised |-> r.raised \/ ~r.description,
        df |-> IF r.description THEN r.rows ELSE <<>>,
        store |-> r.store]

---------------------------------------------------------------------------
(* Display functions *)

NoOptions == [shown |-> FALSE]
NoForm == [pressed |-> FALSE]

Page(s, leaked, out, frame, opts, f) ==
    [store |-> s, leaked |-> leaked, outcome |-> out, df |-> frame,
     options |-> opts, form |-> f]

home(s) == Page(s, 0, "text", <<>>, NoOptions, NoForm)

\* The connection is created in the argument list and never closed.
display_data(s, table) ==
    LET r == read_sql(s, [op |-> "select_all", table |-> table])
    IN Page(r.store, 1, IF r.raised THEN "unhandled" ELSE "dataframe", r.df,
            NoOptions, NoForm)

display_food_listings(s) == display_data(s, "FoodListings")

\* Without the handler an exception of read_sql_query ends the run.
display_sql_queries_uncaught(s, pressed, query) ==
    IF ~pressed THEN Page(s, 0, "text", <<>>, NoOptions, NoForm)
    ELSE LET r == read_sql(s, query)
         IN Page(r.store, 1, IF r.raised THEN "unhandled" ELSE "dataframe", r.df,
                 NoOptions, [pressed |-> TRUE, query |-> query])

\* try: read_sql_query, st.dataframe  except Exception: st.error
display_sql_queries(s, pressed, query) ==
    IF ~pressed THEN Page(s, 0, "text", <<>>, NoOptions, NoForm)
    ELSE LET r == read_sql(s, query)
         IN Page(r.store, 1, IF r.raised THEN "error" ELSE "dataframe", r.df,
                 NoOptions, [pressed |-> TRUE, query |-> query])

\* The module imports os, sqlite3, datetime, pandas, streamlit and seaborn: the
\* name plt used by the chart is bound nowhere.
plt_imported == FALSE

display_food_wastage_by_type_chart(s) ==
    LET r == read_sql(s, [op |-> "aggregate"])
    IN IF r.raised THEN Page(r.store, 1, "unhandled", <<>>, NoOptions, NoForm)
       ELSE IF r.df = <<>> THEN Page(r.store, 0, "warning", r.df, NoOptions, NoForm)
       ELSE Page(r.store, 0, IF plt_imported THEN "chart" ELSE "unhandled", r.df,
                 NoOptions, NoForm)

---------------------------------------------------------------------------
(* Add listing *)

\* a or b on two lists
OrElse(a, b) == IF a = <<>> THEN b ELSE a

\* The four get_unique_values calls that fill the select boxes.
SelectBoxes(s) ==
    LET pid == get_unique_values(s, "Providers", "Provider_ID")
        pty == get_unique_values(s, "Providers", "Type")
        fty == get_unique_values(s, "FoodListings", "Food_Type")
        mty == get_unique_values(s, "FoodListings", "Meal_Type")
    IN [shown |-> TRUE,
        provider_id |-> pid.values, provider_type |-> pty.values,
        food_type |-> OrElse(fty.values, FoodTypeFallback),
        meal_type |-> OrElse(mty.values, MealTypeFallback),
        leaked |-> pid.leaked + pty.leaked + fty.leaked + mty.leaked]

\* What st.selectbox returns: one of the options, None when there is none.
Selectable(opts, null) == IF opts = <<>> THEN {null} ELSE Range(opts)

\* A select box nobody touches holds its first option.
Default(opts, null) == IF opts = <<>> THEN {null} ELSE {opts[1]}

add_food_listing(s, pressed, p) ==
    LET o == SelectBoxes(s)
    IN IF ~pressed THEN Page(s, o.leaked, "form", <<>>, o, NoForm)
       ELSE LET r == execute_query(s, [op |-> "insert"], p)
            IN Page(r.store, o.leaked + r.leaked,
                    IF r.raised THEN "unhandled" ELSE "success", <<>>, o,
                    [pressed |-> TRUE, values |-> p])

---------------------------------------------------------------------------
(* main: the bootstrap step *)

\* A check that never finds the file.
os_path_never_exists(s) == FALSE

os_path_exists(s) == s.file

\* fault: the step of the bootstrap that raises an I/O error ("none": no error).
BootstrapFaults == {"makedirs"} \cup Range(LoadOrder)

IndexOf(seq, x) == CHOOSE i \in 1..Len(seq) : seq[i] = x

\* A bootstrap that creates the schema and the directory and never loads the seed.
Bootstrap_without_load(s, fault) ==
    IF os_path_exists(s) THEN [store |-> s, status |-> "skipped", leaked |-> 0]
    ELSE LET s1 == create_database(s)
         IN IF fault = "makedirs" /\ ~s.dir
            THEN [store |-> s1, status |-> "failed", leaked |-> 0]
            ELSE IF fault \in Range(LoadOrder)
            THEN [store |-> [s1 EXCEPT !.dir = TRUE], status |-> "failed", leaked |-> 1]
            ELSE [store |-> [s1 EXCEPT !.dir = TRUE], status |-> "ran", leaked |-> 0]

Bootstrap(s, fault) ==
    IF os_path_exists(s) THEN [store |-> s, status |-> "skipped", leaked |-> 0]
    ELSE LET s1 == create_database(s)
             s2 == [s1 EXCEPT !.dir = TRUE]
         IN IF fault = "makedirs" /\ ~s.dir
            THEN [store |-> s1, status |-> "failed", leaked |-> 0]
            ELSE IF fault \in Range(LoadOrder)
            THEN [store |-> LoadUpTo(s2, IndexOf(LoadOrder, fault) - 1),
                  status |-> "failed", leaked |-> 1]
            ELSE [store |-> load_embedded_data_to_db(s2), status |-> "ran",
                  leaked |-> 0]

---------------------------------------------------------------------------
(* State machine: one action per menu destination, each a whole run of main *)

Store == [file |-> dbFile, dir |-> dataDir, tables |-> tables, seq |-> sqlite_sequence]

NoTables == [t \in {} |-> 0]

\* The seed rows are in place in all four tables.
HasSeed(s) == \A t \in TableNames : HasTable(s, t) /\ s.tables[t].rows = Frame(t)

\* Values entered in the form's free inputs.
FoodNames == {"Pasta"}
Quantities == MinQuantity..MaxQuantity
ExpiryDates == {<<2025, 6, 1>>}
Locations == {"Midtown"}

\* Rows of FoodListings that came from the form.
AddedRows(s) ==
    IF HasTable(s, "FoodListings")
    THEN Len(SelectSeq(s.tables["FoodListings"].rows,
                       LAMBDA r : r.Food_Name \in FoodNames))
    ELSE 0

\* Statements typed into the ad-hoc query box.
Statements ==
    {[op |-> "syntax_error"]}
    \cup {[op |-> "select_all", table |-> t] : t \in {"FoodListings", "Claims"}}
    \cup {[op |-> "drop", table |-> t] : t \in {"FoodListings", "Providers"}}

Init ==
    /\ dbFile = FALSE
    /\ dataDir \in BOOLEAN
    /\ tables = NoTables
    /\ sqlite_sequence = NoTables
    /\ openConns = 0
    /\ choice = "none"
    /\ bootstrap = "none"
    /\ outcome = "none"
    /\ df = <<>>
    /\ options = NoOptions
    /\ form = NoForm
    /\ seeded = FALSE

\* The state after a run of main with menu choice c, bootstrap result b and
\* page d of the destination.
Finish(c, b, d) ==
    /\ openConns + b.leaked + d.leaked <= MaxOpenConns
    /\ dbFile' = d.store.file
    /\ dataDir' = d.store.dir
    /\ tables' = d.store.tables
    /\ sqlite_sequence' = d.store.seq
    /\ openConns' = openConns + b.leaked + d.leaked
    /\ choice' = c
    /\ bootstrap' = b.status
    /\ outcome' = d.outcome
    /\ df' = d.df
    /\ options' = d.options
    /\ form' = d.form
    /\ seeded' = (seeded \/ HasSeed(b.store))

\* st.button is True only in the run its click triggers: the run before it
\* rendered the page c with the button on it.
Rendered(c) == choice = c /\ bootstrap # "failed"

Home ==
    LET b == Bootstrap(Store, "none")
    IN Finish("Home", b, home(b.store))

ViewData ==
    \E table \in TableNames :
        LET b == Bootstrap(Store, "none")
        IN Finish("View Data", b, display_data(b.store, table))

\* The form is rendered; with the button pressed the listing is inserted.  The
\* user enters the free inputs, picks a provider and a food type, and leaves the
\* Provider Type and Meal Type boxes on their default, the first option.
AddFoodListing ==
    LET b == Bootstrap(Store, "none")
        o == SelectBoxes(b.store)
        none == [food_name |-> "", quantity |-> MinQuantity]
    IN \/ Finish("Add Food Listing", b, add_food_listing(b.store, FALSE, none))
       \/ \E food_name \in FoodNames, quantity \in Quantities,
             expiry_date \in ExpiryDates, location \in Locations,
             provider_id \in Selectable(o.provider_id, NullInt),
             provider_type \in Default(o.provider_type, NullText),
             food_type \in Selectable(o.food_type, NullText),
             meal_type \in Default(o.meal_type, NullText) :
            /\ Rendered("Add Food Listing")
            /\ AddedRows(b.store) < MaxAdds
            /\ Finish("Add Food Listing", b,
                      add_food_listing(b.store, TRUE,
                          [food_name |-> food_name, quantity |-> quantity,
                           expiry_date |-> expiry_date, provider_id |-> provider_id,
                           provider_type |-> provider_type, location |-> location,
                           food_type |-> food_type, meal_type |-> meal_type]))

FoodListingsPage ==
    LET b == Bootstrap(Store, "none")
    IN Finish("Food Listings", b, display_food_listings(b.store))

SQLQueries ==
    \E pressed \in BOOLEAN, query \in Statements :
        LET b == Bootstrap(Store, "none")
        IN /\ pressed => Rendered("SQL Queries")
           /\ Finish("SQL Queries", b, display_sql_queries(b.store, pressed, query))

FoodWastageChart ==
    LET b == Bootstrap(Store, "none")
    IN Finish("Food Wastage Chart", b, display_food_wastage_by_type_chart(b.store))

\* A run of main whose bootstrap step raises: nothing is dispatched.
FailedLaunch ==
    \E c \in Range(Menu), fault \in BootstrapFaults :
        LET b == Bootstrap(Store, fault)
        IN /\ b.status = "failed"
           /\ Finish(c, b, Page(b.store, 0, "unhandled", <<>>, NoOptions, NoForm))

\* The interpreter finalizes connection objects nobody refers to any more.
Finalize ==
    /\ openConns > 0
    /\ openConns' = 0
    /\ UNCHANGED <<dbFile, dataDir, tables, sqlite_sequence, choice, bootstrap,
                   outcome, df, options, form, seeded>>

\* The menu without the ad-hoc query runner, no I/O error.
Next ==
    \/ Home
    \/ ViewData
    \/ AddFoodListing
    \/ FoodListingsPage
    \/ FoodWastageChart
    \/ Finalize

Spec == Init /\ [][Next]_vars

\* The whole menu.
NextSQL == Next \/ SQLQueries

SpecSQL == Init /\ [][NextSQL]_vars

\* The menu without the ad-hoc query runner, with I/O errors during bootstrap.
NextFault == Next \/ FailedLaunch

SpecFault == Init /\ [][NextFault]_vars

---------------------------------------------------------------------------
(* Properties *)

Rows(t) == tables[t].rows

Ids(t) == Column(Rows(t), tables[t].cols[1])

IsPrefix(a, b) == Len(a) <= Len(b) /\ SubSeq(b, 1, Len(a)) = a

\* The last run submitted the add-listing form and the insert went through.
Added == choice = "Add Food Listing" /\ form.pressed /\ outcome = "success"

\* This step is such a run of main on an existing store file.
AddStep == dbFile /\ Added' /\ ~Finalize

\* C1: on a bootstrapped store one add-listing submission adds exactly one row
\* to FoodListings; the row holds the submitted values and a fresh Listing_ID:
\* not NULL and not the identifier of any row already there.
C1_AddListingInsertsFreshRow ==
    [][AddStep
         => LET old == Rows("FoodListings")
                new == tables'["FoodListings"].rows
                row == new[Len(new)]
                v   == form'.values
            IN /\ Len(new) = Len(old) + 1
               /\ IsPrefix(old, new)
               /\ row.Food_Name = v.food_name
               /\ row.Quantity = v.quantity
               /\ row.Expiry_Date = adapt_date(v.expiry_date)
               /\ row.Provider_ID = v.provider_id
               /\ row.Provider_Type = v.provider_type
               /\ row.Location = v.location
               /\ row.Food_Type = v.food_type
               /\ row.Meal_Type = v.meal_type
               /\ row.Listing_ID # NullInt
               /\ \A i \in 1..Len(old) : old[i].Listing_ID # row.Listing_ID]_vars

\* Every table's identifiers are present and pairwise different.
IdsUnique ==
    \A t \in DOMAIN tables :
        /\ \A i \in 1..Len(Ids(t)) : Ids(t)[i] # NullInt
        /\ \A i, j \in 1..Len(Ids(t)) : Ids(t)[i] = Ids(t)[j] => i = j

\* C2: in every state reached without the ad-hoc query runner the identifiers
\* of each table are unique and none is missing, and a newly added listing gets
\* an identifier greater than every identifier already in FoodListings.
C2_IdentifiersUniqueAndIncreasing ==
    [][/\ IdsUnique'
       /\ AddStep
            => LET new == tables'["FoodListings"].rows
               IN \A i \in 1..Len(Rows("FoodListings")) :
                     new[Len(new)].Listing_ID > Rows("FoodListings")[i].Listing_ID]_vars

C4_BootstrapIdempotent ==
    [][dbFile
         => /\ DOMAIN tables' = DOMAIN tables
            /\ \A t \in DOMAIN tables :
                 IF t = "FoodListings" /\ choice' = "Add Food Listing"
                 THEN IsPrefix(Rows(t), tables'[t].rows)
                 ELSE tables'[t].rows = Rows(t)]_vars

C4_Witness ==
    /\ dbFile /\ bootstrap = "skipped" /\ choice = "Home"
    /\ AddedRows(Store) > 0
    /\ IsPrefix(food_listings, Rows("FoodListings"))

\* The last run executed a statement with a syntax error in the query runner.
RanInvalidStatement ==
    choice = "SQL Queries" /\ form.pressed /\ form.query.op = "syntax_error"

\* C5: a syntactically invalid statement in the ad-hoc query runner ends in the
\* error message, not in an unhandled failure, and leaves the store as it was.
C5_InvalidStatementShowsError ==
    [][(dbFile /\ RanInvalidStatement')
         => /\ outcome' = "error"
            /\ tables' = tables
            /\ sqlite_sequence' = sqlite_sequence]_vars

C5_Witness == dbFile /\ RanInvalidStatement /\ outcome = "error" /\ seeded

\* Table and column names get_unique_values is asked for, some of them absent.
AskedTables == TableNames \cup {"Donors"}
AskedColumns == {"Provider_ID", "Type", "Food_Type", "Meal_Type", "Quantity", "Colour"}

\* C6: get_unique_values returns the empty sequence when the table or the
\* column does not exist, and otherwise the values stored in the column, each
\* exactly once.
C6_UniqueValuesFailOpen ==
    \A t \in AskedTables, c \in AskedColumns :
        LET v == get_unique_values(Store, t, c).values
        IN IF t \in DOMAIN tables /\ c \in Range(tables[t].cols)
           THEN /\ Range(v) = {Rows(t)[i][c] : i \in 1..Len(Rows(t))}
                /\ \A i, j \in 1..Len(v) : v[i] = v[j] => i = j
           ELSE v = <<>>

\* The form was rendered after the Providers table was dropped, and with
\* listings that repeat a food type.
C6_Witness ==
    /\ options.shown /\ dbFile
    /\ "Providers" \notin DOMAIN tables /\ options.provider_id = <<>>
    /\ "FoodListings" \in DOMAIN tables
    /\ Len(Rows("FoodListings")) > Len(options.food_type)

\* Sum of Quantity over the first n rows whose Food_Type is ft.
RECURSIVE QuantityOf(_, _, _)
QuantityOf(rows, ft, n) ==
    IF n = 0 THEN 0
    ELSE QuantityOf(rows, ft, n - 1)
         + (IF rows[n].Food_Type = ft THEN rows[n].Quantity ELSE 0)

ChartQueried == choice = "Food Wastage Chart" /\ bootstrap # "failed"

\* C7: the chart query returns one row per food type present in FoodListings,
\* with the sum of the quantities of that type; on the seed data the rows are
\* ("Grain", 10) and ("Bakery", 5).
C7_AggregatePerFoodType ==
    ChartQueried
      => LET rows == Rows("FoodListings")
             present == {rows[i].Food_Type : i \in 1..Len(rows)}
         IN /\ \A ft \in present :
                 Cardinality({j \in 1..Len(df) : df[j].Food_Type = ft}) = 1
            /\ \A j \in 1..Len(df) :
                 /\ df[j].Food_Type \in present
                 /\ df[j].Total = QuantityOf(rows, df[j].Food_Type, Len(rows))
            /\ rows = food_listings
                 => Range(df) = {[Food_Type |-> "Grain", Total |-> 10],
                                 [Food_Type |-> "Bakery", Total |-> 5]}

C7_Witness ==
    /\ ChartQueried /\ AddedRows(Store) = MaxAdds
    /\ \E j \in 1..Len(df) : df[j].Food_Type = "Grain" /\ df[j].Total > 10

\* C8: the chart destination never ends in an unhandled failure: the warning
\* when the result set is empty, the bar chart when it is not.
C8_ChartAlwaysCompletes ==
    ChartQueried
      => /\ outcome \in {"warning", "chart"}
         /\ outcome = "warning" <=> df = <<>>

\* C9: no connection stays open after an interaction.
C9_NoOpenConnections == openConns = 0

\* C10: a run of main whose bootstrap step ends without error has a seeded store.
C10_CompletedBootstrapSeeded == bootstrap \in {"ran", "skipped"} => seeded

\* C10 as amended: a run that finds no store file and completes its bootstrap
\* has seeded the store; a run that finds the file seeds nothing.
C10_SeededOnlyWhenFileAbsent ==
    [][/\ bootstrap' = "ran" => seeded'
       /\ dbFile => seeded' = seeded]_vars

\* A run completed on the file left by a failed bootstrap, the store unseeded.
C10_Witness == dbFile /\ bootstrap = "skipped" /\ ~seeded /\ outcome # "unhandled"

====
